---- MODULE Spec2Model ----
(***************************************************************************)
(* A model of govd's download subsystem (util/download.go):                *)
(*   - createChunks, the byte-range partition            (SpecChunks)      *)
(*   - DownloadFile / runChunkedDownload and its chunk workers   (Spec)    *)
(*   - DownloadFileWithSegments / DownloadSegments / MergeSegmentFiles     *)
(*                                                       (SpecSegments)    *)
(* Goroutines are processes with a program counter; every action is one    *)
(* step between two points at which another goroutine can be scheduled.    *)
(***************************************************************************)
EXTENDS Integers, Sequences, FiniteSets, TLC

VARIABLES
    \* ---- createChunks (SpecChunks) ----
    ccFileSize,     \* the fileSize argument
    ccChunkSize,    \* the chunkSize argument
    ccNumChunks,    \* numChunks (0 until computed)
    ccI,            \* the loop variable i
    ccChunks,       \* the chunks slice built so far
    ccPc            \* "start" | "loop" | "done"

VARIABLES
    \* ---- DownloadFile / runChunkedDownload (Spec) ----
    cfg,            \* the DownloadConfig: [Concurrency, RetryAttempts, Remux]
    ctxDone,        \* the caller's ctx is cancelled
    dfPc,           \* DownloadFile's position
    dfUrl,          \* index into URLList of the candidate in progress
    dfErrs,         \* errs, the per-candidate errors
    dfResult,       \* what DownloadFile returned ("none" while running)
    rcd,            \* per candidate: the locals of its runChunkedDownload call
    wk,             \* per candidate and chunk index: the chunk goroutine
    fs,             \* the file at filePath: [exists, content]
    lastReport,     \* the value last passed to ProgressUpdater
    getLog,         \* per candidate: the Range headers of the GETs issued
    dfRemuxed       \* the calls of av.RemuxFile: the candidate whose file it got

VARIABLES
    \* ---- DownloadFileWithSegments / DownloadSegments / MergeSegmentFiles ----
    sgCfg,          \* the DownloadConfig: [Concurrency, Remux]
    sgCtxDone,      \* the caller's ctx is cancelled
    sgPc,           \* position of DownloadFileWithSegments and its callees
    sgResult,       \* what DownloadFileWithSegments returned: [kind, idx, cause]
    clock,          \* time.Now(), in seconds
    sgDir1,         \* tempDir of DownloadFileWithSegments (its timestamp)
    sgDir2,         \* tempDir of DownloadSegments (its timestamp)
    dirs,           \* the segments_<timestamp> directories that exist
    segFile,        \* per segment index: segment_%05d exists in sgDir2
    sgOut,          \* the merged output file: [exists, content]
    sgSem,          \* slots of DownloadSegments' semaphore in use
    sgErrChan,      \* DownloadSegments' errChan
    sgClosed,       \* errChan is closed
    downloadedFiles,\* DownloadSegments' result array
    sw,             \* per segment index: the segment goroutine's position
    sgMergeI,       \* MergeSegmentFiles' loop index
    sgRemuxed       \* the calls of av.RemuxFile: 0 for the merged output,
                    \* i for the file of segment i

VARIABLES
    \* ---- the Reddit extractors (ext/reddit): one call of Run ----
    rdKind,         \* "short" (ShortExtractor) or "reddit" (Extractor)
    rdPc,           \* position of Run and its callees
    rdHost,         \* the host argument of the GetRedditData call in progress
    rdRaise,        \* the raise argument of the GetRedditData call in progress
    rdCookies,      \* util.ParseCookieFile("reddit.txt") succeeds
    rdRequests,     \* the requests session.Do was given: [host, status]
    rdData,         \* the decoded post, once GetRedditData returned it
    rdResp,         \* the ExtractorResponse returned: [URL, MediaList]
    rdErr           \* the error returned ("nil" for none)

ccVars == <<ccFileSize, ccChunkSize, ccNumChunks, ccI, ccChunks, ccPc>>
dfVars == <<cfg, ctxDone, dfPc, dfUrl, dfErrs, dfResult, rcd, wk, fs,
            lastReport, getLog, dfRemuxed>>

sgVars == <<sgCfg, sgCtxDone, sgPc, sgResult, clock, sgDir1, sgDir2,
            dirs, segFile, sgOut, sgSem, sgErrChan, sgClosed, downloadedFiles,
            sw, sgMergeI, sgRemuxed>>

rdVars == <<rdKind, rdPc, rdHost, rdRaise, rdCookies, rdRequests, rdData,
            rdResp, rdErr>>

vars == <<ccVars, dfVars, sgVars, rdVars>>
nonCC == <<dfVars, sgVars, rdVars>>
nonDF == <<ccVars, sgVars, rdVars>>
nonSG == <<ccVars, dfVars, rdVars>>
nonRD == <<ccVars, dfVars, sgVars>>

(***************************************************************************)
(* Bounds of the model.                                                    *)
(***************************************************************************)
MaxN == 9            \* createChunks: largest fileSize drawn
MaxChunkSize == 4    \* createChunks: largest chunkSize drawn
NumURLs == 2         \* DownloadFile: length of URLList
MaxFileSize == 3     \* largest Content-Length the HEAD probe reports
ChunkSize == 2       \* config.ChunkSize
MaxConcurrency == 2  \* largest config.Concurrency
MaxRetry == 1        \* largest config.RetryAttempts
UnknownLen == 2      \* body length of a URL whose HEAD reports no length
NumSegs == 2         \* DownloadFileWithSegments: length of segmentURLs
MaxSegConcurrency == 2  \* largest config.Concurrency of the segmented download
MaxClock == 1        \* seconds that can pass between the two time.Now() calls
MaxGallery == 2      \* Reddit: largest number of entries of media_metadata
MaxFormats == 2      \* Reddit: largest number of formats GetHLSFormats returns

(***************************************************************************)
(* createChunks (download.go:358-376).                                     *)
(***************************************************************************)

\* math.Ceil(float64(a) / float64(b)) converted back to int, for 0 < a, 0 < b.
\* Below 2^53 both conversions are exact and the correctly rounded quotient
\* cannot reach the next integer, so the result is the integer ceiling.
CeilDiv(a, b) == (a + b - 1) \div b

\* The quotient of an integer division, which rounds down.
NumChunksFloor(fileSize, chunkSize) == fileSize \div chunkSize

\* numChunks := int(math.Ceil(float64(fileSize) / float64(chunkSize)))
NumChunks(fileSize, chunkSize) == CeilDiv(fileSize, chunkSize)

\* start := i * chunkSize
ChunkStart(i, chunkSize) == i * chunkSize

\* ChunkEnd without the clamp to the end of the file.
ChunkEndUnclamped(start, chunkSize, fileSize) == start + chunkSize - 1

\* end := start + chunkSize - 1; if end >= fileSize { end = fileSize - 1 }
ChunkEnd(start, chunkSize, fileSize) ==
    IF start + chunkSize - 1 >= fileSize
    THEN fileSize - 1
    ELSE start + chunkSize - 1

\* The whole function, as the slice it returns ([2]int as <<start, end>>).
createChunks(fileSize, chunkSize) ==
    IF fileSize <= 0
    THEN << <<0, 0>> >>
    ELSE [k \in 1..NumChunks(fileSize, chunkSize) |->
            << ChunkStart(k - 1, chunkSize),
               ChunkEnd(ChunkStart(k - 1, chunkSize), chunkSize, fileSize) >>]

\* chunkSize := chunk[1] - chunk[0] + 1   (download.go:237)
ChunkBytes(chunk) == chunk[2] - chunk[1] + 1

(***************************************************************************)
(* Values shared by the DownloadFile model.                                *)
(***************************************************************************)

\* What the HEAD probe can report: int(resp.ContentLength), which is -1 when
\* the response carries no Content-Length (download.go:292).
ProbeSizes == {-1, 0} \cup (1..MaxFileSize)

\* The largest number of chunks one candidate is split into.
MaxChunks == NumChunks(MaxFileSize, ChunkSize)

URLs == 1..NumURLs
Workers == URLs \X (1..MaxChunks)

\* Errors, all of one shape.  kind: which statement produced it; idx: the chunk
\* index of "chunk %d: %w"; cause: what downloadChunkWithRetry returned ("ctx"
\* for ctx.Err(), "allFailed" for "all %d attempts failed: %w"); last: the
\* attempt whose error "all attempts failed" wraps.
Err(kind, idx, cause, last) == [kind |-> kind, idx |-> idx, cause |-> cause, last |-> last]
NoErr == Err("nil", 0, "", -1)
CtxErr == Err("ctx", 0, "", -1)

\* The remote body of a candidate: byte p (0-based) is written p + 1; 0 is a
\* zero byte of a truncated file.  A server that reports its length has that
\* many bytes; one that reports none has UnknownLen.
BodyLen(fileSize) == IF fileSize > 0 THEN fileSize ELSE UnknownLen

\* req.Header.Add("Range", fmt.Sprintf("bytes=%d-%d", chunk[0], chunk[1]))
RangeHeader(chunk) == <<chunk[1], chunk[2]>>

\* A GET without a Range header, in getLog.
NoRange == <<-1, -1>>

Min(a, b) == IF a < b THEN a ELSE b
Max(a, b) == IF a > b THEN a ELSE b

\* The body of a response, as the interval <<first, last>> of remote offsets:
\* 206 answers the range, 200 is the whole body (the server ignored Range).
ResponseBody(status, range, fileSize) ==
    IF status = 206
    THEN <<range[1], Min(range[2], BodyLen(fileSize) - 1)>>
    ELSE <<0, BodyLen(fileSize) - 1>>

\* file.WriteAt(data, int64(offset)): the file's content afterwards.
WriteAt(content, data, offset) ==
    LET n == Max(data[2] - data[1] + 1, 0)
        newLen == IF n = 0 THEN Len(content) ELSE Max(Len(content), offset + n)
    IN [j \in 1..newLen |->
          IF j > offset /\ j <= offset + n THEN data[1] + (j - offset)
          ELSE IF j <= Len(content) THEN content[j] ELSE 0]

\* file.Truncate(int64(fileSize)) on the freshly created (empty) file.
Truncated(fileSize) == [j \in 1..fileSize |-> 0]

\* config.ProgressUpdater != nil: DownloadFile is modelled with a handler set.
HasProgressUpdater == TRUE

\* A downloader that remuxes whatever the config says.
ShouldRemuxAlways(config) == TRUE

\* if config.Remux { av.RemuxFile(...) }   (download.go:59, 504)
ShouldRemux(config) == config.Remux

\* A semaphore whose send never blocks.
SlotFreeAlways(used, capacity) == TRUE

\* A semaphore made with one slot fewer than config.Concurrency.
SlotFreeOneLess(used, capacity) == used + 1 < capacity

\* semaphore <- struct{}{} can proceed: the channel made with capacity
\* config.Concurrency is not full (download.go:189, 211, 392, 405)
SlotFree(used, capacity) == used < capacity

\* One download context shared by the calls for all candidates.
SharedCtxDone(k) == ctxDone \/ \E j \in URLs : rcd[j].cancelled

\* A download context that only the caller's cancellation ends.
ParentCtxDone(k) == ctxDone

\* downloadCtx.Done() of candidate k: the child context is done when
\* cancelDownload was called or the parent is done (download.go:200).
DownloadCtxDone(k) == rcd[k].cancelled \/ ctxDone

IdleRcd == [fileSize |-> 0, started |-> FALSE, sem |-> 0, once |-> FALSE,
            downloadErr |-> NoErr, errChan |-> << >>, closed |-> FALSE,
            cancelled |-> FALSE, completedBytes |-> 0, handleOpen |-> FALSE,
            truncated |-> FALSE, ret |-> "none"]

\* Before the first call of ProgressUpdater: 0/1, below every value in [0, 1].
NoReport == <<0, 1>>

IdleWorker == [pc |-> "idle", attempt |-> 0, lastErr |-> -1, err |-> NoErr,
               data |-> <<0, -1>>, progress |-> <<0, 1>>, requests |-> 0]

\* A goroutine that has returned: its locals are gone.
DoneWorker == [IdleWorker EXCEPT !.pc = "done"]

\* The state before DownloadFile is called, up to the config and the position.
DFIdle ==
    /\ ctxDone = FALSE
    /\ dfUrl = 1
    /\ dfErrs = << >>
    /\ dfResult = "none"
    /\ rcd = [k \in URLs |-> IdleRcd]
    /\ wk = [w \in Workers |-> IdleWorker]
    /\ fs = [exists |-> FALSE, content |-> << >>]
    /\ lastReport = NoReport
    /\ getLog = [k \in URLs |-> {}]
    /\ dfRemuxed = << >>

DFOff ==
    /\ DFIdle
    /\ dfPc = "off"
    /\ cfg = [Concurrency |-> 1, RetryAttempts |-> 0, Remux |-> FALSE]

(***************************************************************************)
(* Values shared by the segmented-download model.                          *)
(***************************************************************************)
Segs == 1..NumSegs

\* What DownloadFileWithSegments returns.  kind "path" is success; "segment"
\* is "failed to download segments" (idx: the segment named by the error);
\* "merge" is "failed to merge segments"; cause "ctx" marks an error that
\* wraps ctx.Err().
SgRes(kind, idx, cause) == [kind |-> kind, idx |-> idx, cause |-> cause]
SgNone == SgRes("none", -1, "")

NoOut == [exists |-> FALSE, content |-> << >>]

\* An entry of downloadedFiles not yet assigned (the empty string).
NoPath == -1

\* A path built from a variable shared by all the goroutines, which holds the
\* last index when they run.
SegmentPathShared(idx) == NumSegs - 1

\* segmentPath := filepath.Join(tempDir, fmt.Sprintf("segment_%05d", idx)):
\* within one tempDir the path is named by the number in it.
SegmentPath(idx) == idx

\* The goroutine started as func(idx, url)(i, segmentURL) downloads
\* segmentURLs[idx] into segment_<idx>: the remote segment a file holds.
SegmentUrl(path) == path

SGIdle ==
    /\ sgCtxDone = FALSE
    /\ sgResult = SgNone
    /\ clock = 0
    /\ sgDir1 = -1
    /\ sgDir2 = -1
    /\ dirs = {}
    /\ segFile = [i \in Segs |-> FALSE]
    /\ sgOut = NoOut
    /\ sgSem = 0
    /\ sgErrChan = << >>
    /\ sgClosed = FALSE
    /\ downloadedFiles = [i \in Segs |-> NoPath]
    /\ sw = [i \in Segs |-> "idle"]
    /\ sgMergeI = 0
    /\ sgRemuxed = << >>

SGOff == SGIdle /\ sgPc = "off" /\ sgCfg = [Concurrency |-> 1, Remux |-> FALSE]

(***************************************************************************)
(* Values shared by the Reddit extractor model.                            *)
(***************************************************************************)

\* A models.Media, as the number of formats added to it.
Media(formats) == [formats |-> formats]

\* An ExtractorResponse; the zero values are the empty string and nil.
Response(url, mediaList) == [URL |-> url, MediaList |-> mediaList]
NoResponse == Response("", << >>)

\* No post decoded yet.
NoData == [shape |-> "none"]

RDOff ==
    /\ rdKind = "reddit"
    /\ rdPc = "off"
    /\ rdHost = "www.reddit.com"
    /\ rdRaise = FALSE
    /\ rdCookies = TRUE
    /\ rdRequests = << >>
    /\ rdData = NoData
    /\ rdResp = NoResponse
    /\ rdErr = "nil"

CCInit ==
    /\ ccFileSize \in -1..MaxN
    /\ ccChunkSize \in 1..MaxChunkSize
    /\ ccNumChunks = 0
    /\ ccI = 0
    /\ ccChunks = << >>
    /\ ccPc = "start"
    /\ DFOff
    /\ SGOff
    /\ RDOff

\* if fileSize <= 0 { return [][2]int{{0, 0}} }
CCSentinel ==
    /\ ccPc = "start"
    /\ ccFileSize <= 0
    /\ ccChunks' = << <<0, 0>> >>
    /\ ccPc' = "done"
    /\ UNCHANGED <<ccFileSize, ccChunkSize, ccNumChunks, ccI>>
    /\ UNCHANGED nonCC

\* numChunks := ...; chunks := make([][2]int, numChunks)
CCAllocate ==
    /\ ccPc = "start"
    /\ ccFileSize > 0
    /\ ccNumChunks' = NumChunks(ccFileSize, ccChunkSize)
    /\ ccChunks' = [k \in 1..NumChunks(ccFileSize, ccChunkSize) |-> <<0, 0>>]
    /\ ccI' = 0
    /\ ccPc' = "loop"
    /\ UNCHANGED <<ccFileSize, ccChunkSize>>
    /\ UNCHANGED nonCC

\* one iteration of  for i := 0; i < numChunks; i++ { ... chunks[i] = ... }
CCIterate ==
    /\ ccPc = "loop"
    /\ ccI < ccNumChunks
    /\ ccChunks' = [ccChunks EXCEPT ![ccI + 1] =
                      << ChunkStart(ccI, ccChunkSize),
                         ChunkEnd(ChunkStart(ccI, ccChunkSize), ccChunkSize, ccFileSize) >>]
    /\ ccI' = ccI + 1
    /\ UNCHANGED <<ccFileSize, ccChunkSize, ccNumChunks, ccPc>>
    /\ UNCHANGED nonCC

\* the loop condition fails: return chunks
CCReturn ==
    /\ ccPc = "loop"
    /\ ccI >= ccNumChunks
    /\ ccPc' = "done"
    /\ UNCHANGED <<ccFileSize, ccChunkSize, ccNumChunks, ccI, ccChunks>>
    /\ UNCHANGED nonCC

CCNext == CCSentinel \/ CCAllocate \/ CCIterate \/ CCReturn

SpecChunks == CCInit /\ [][CCNext]_vars


(***************************************************************************)
(* DownloadFile (download.go:31-70) and runChunkedDownload (163-270).      *)
(***************************************************************************)

Configs == [Concurrency : 0..MaxConcurrency,
            RetryAttempts : 0..MaxRetry,
            Remux : BOOLEAN]

CCOff ==
    /\ ccFileSize = 0 /\ ccChunkSize = 1 /\ ccNumChunks = 0
    /\ ccI = 0 /\ ccChunks = << >> /\ ccPc = "off"

Init ==
    /\ cfg \in Configs
    /\ dfPc = "loop"
    /\ DFIdle
    /\ CCOff
    /\ SGOff
    /\ RDOff

\* chunks := createChunks(fileSize, config.ChunkSize)   (download.go:187)
ChunksOf(k) == createChunks(rcd[k].fileSize, ChunkSize)
ChunkOf(k, i) == ChunksOf(k)[i]

\* runChunkedDownload returned err: errs = append(errs, err); continue
\* (download.go:54-57).
AppendErr(errs, e) == Append(errs, e)

\* A loop that skips the candidate after a failed one.
NextCandidateSkips(u) == u + 2

\* for _, fileURL := range URLList: the next element (download.go:42)
NextCandidate(u) == u + 1

CandidateFailed(e) ==
    /\ dfErrs' = AppendErr(dfErrs, e)
    /\ dfUrl' = NextCandidate(dfUrl)
    /\ dfPc' = "loop"
    /\ dfResult' = dfResult

\* The range loop is over: return "", fmt.Errorf("%w: %v", ErrDownloadFailed, errs)
DFExhausted ==
    /\ dfPc = "loop"
    /\ dfUrl > NumURLs
    /\ dfPc' = "returned"
    /\ dfResult' = "downloadFailed"
    /\ UNCHANGED <<nonDF, dfRemuxed, cfg, ctxDone, dfUrl, dfErrs, rcd, wk, fs, lastReport, getLog>>

\* case <-ctx.Done(): return "", ctx.Err()   (download.go:44-45)
DFCancelled ==
    /\ dfPc = "loop"
    /\ dfUrl <= NumURLs
    /\ ctxDone
    /\ dfPc' = "returned"
    /\ dfResult' = "cancelled"
    /\ UNCHANGED <<nonDF, dfRemuxed, cfg, ctxDone, dfUrl, dfErrs, rcd, wk, fs, lastReport, getLog>>

\* default: ensureDownloadDir(config.DownloadDir).  os.MkdirAll can fail
\* while the directory does not exist; from the second candidate on it
\* exists, os.Stat finds it and nil is returned (download.go:48-52, 154-161).
DFEnsureDir ==
    /\ dfPc = "loop"
    /\ dfUrl <= NumURLs
    /\ ~ctxDone
    /\ \E ok \in (IF dfUrl = 1 THEN BOOLEAN ELSE {TRUE}) :
         IF ok
         THEN dfPc' = "head" /\ dfResult' = dfResult
         ELSE dfPc' = "returned" /\ dfResult' = "dirError"
    /\ UNCHANGED <<nonDF, dfRemuxed, cfg, ctxDone, dfUrl, dfErrs, rcd, wk, fs, lastReport, getLog>>

\* getFileSize fails: the request fails (always so once ctx is done) or the
\* status is not 200 (download.go:169-172, 272-293).
RcdProbeFail ==
    /\ dfPc = "head"
    /\ CandidateFailed(Err("probe", 0, IF ctxDone THEN "ctx" ELSE "", -1))
    /\ rcd' = [rcd EXCEPT ![dfUrl].ret = "err"]
    /\ UNCHANGED <<nonDF, dfRemuxed, cfg, ctxDone, wk, fs, lastReport, getLog>>

\* getFileSize returns int(resp.ContentLength)
RcdProbeOk ==
    /\ dfPc = "head"
    /\ ~ctxDone
    /\ \E size \in ProbeSizes :
         rcd' = [rcd EXCEPT ![dfUrl].fileSize = size]
    /\ dfPc' = "create"
    /\ UNCHANGED <<nonDF, dfRemuxed, cfg, ctxDone, dfUrl, dfErrs, dfResult, wk, fs, lastReport, getLog>>

\* os.Create(filePath) fails: return before any file exists (download.go:174-177)
RcdCreateFail ==
    /\ dfPc = "create"
    /\ CandidateFailed(Err("create", 0, "", -1))
    /\ rcd' = [rcd EXCEPT ![dfUrl].ret = "err"]
    /\ UNCHANGED <<nonDF, dfRemuxed, cfg, ctxDone, wk, fs, lastReport, getLog>>

\* os.Create succeeds, file.Truncate fails: return the error; the deferred
\* file.Close() runs, nothing removes the file (download.go:181-185).
RcdTruncateFail ==
    /\ dfPc = "create"
    /\ rcd[dfUrl].fileSize > 0
    /\ fs' = [exists |-> TRUE, content |-> << >>]
    /\ CandidateFailed(Err("truncate", 0, "", -1))
    /\ rcd' = [rcd EXCEPT ![dfUrl].ret = "err"]
    /\ UNCHANGED <<nonDF, dfRemuxed, cfg, ctxDone, wk, lastReport, getLog>>

\* os.Create, the pre-allocation when fileSize > 0, createChunks, and the
\* go statements of the loop over chunks (download.go:174-249).
RcdStart ==
    /\ dfPc = "create"
    /\ LET k == dfUrl
           size == rcd[k].fileSize
       IN /\ fs' = [exists |-> TRUE,
                    content |-> IF size > 0 THEN Truncated(size) ELSE << >>]
          /\ rcd' = [rcd EXCEPT ![k].started = TRUE,
                                ![k].handleOpen = TRUE,
                                ![k].truncated = (size > 0)]
          /\ wk' = [w \in Workers |->
                      IF w[1] = k /\ w[2] <= Len(ChunksOf(k))
                      THEN [wk[w] EXCEPT !.pc = "acquire"]
                      ELSE wk[w]]
    /\ dfPc' = "wait"
    /\ UNCHANGED <<nonDF, dfRemuxed, cfg, ctxDone, dfUrl, dfErrs, dfResult, lastReport, getLog>>

\* go func() { wg.Wait(); close(errChan) }()   (download.go:251-254)
RcdCloser(k) ==
    /\ rcd[k].started
    /\ ~rcd[k].closed
    /\ \A i \in 1..MaxChunks : wk[<<k, i>>].pc \in {"idle", "done"}
    /\ rcd' = [rcd EXCEPT ![k].closed = TRUE]
    /\ UNCHANGED <<nonDF, dfRemuxed, cfg, ctxDone, dfPc, dfUrl, dfErrs, dfResult, wk, fs,
                   lastReport, getLog>>

\* os.Remove(filePath)
Removed == [exists |-> FALSE, content |-> << >>]

\* case err := <-errChan with a recorded error: os.Remove(filePath); return err.
\* The deferred cancelDownload() and file.Close() run (download.go:257-262).
RcdWaitErr ==
    /\ dfPc = "wait"
    /\ rcd[dfUrl].errChan # << >>
    /\ fs' = Removed
    /\ CandidateFailed(Head(rcd[dfUrl].errChan))
    /\ rcd' = [rcd EXCEPT ![dfUrl].errChan = Tail(@),
                          ![dfUrl].cancelled = TRUE,
                          ![dfUrl].handleOpen = FALSE,
                          ![dfUrl].ret = "err"]
    /\ UNCHANGED <<nonDF, dfRemuxed, cfg, ctxDone, wk, lastReport, getLog>>

\* case err := <-errChan on the closed, empty channel: err is nil, the select
\* ends and runChunkedDownload returns nil (download.go:257-258, 269); then
\* DownloadFile goes on to remux or returns filePath (download.go:59-65).
RcdWaitClosed ==
    /\ dfPc = "wait"
    /\ rcd[dfUrl].errChan = << >>
    /\ rcd[dfUrl].closed
    /\ rcd' = [rcd EXCEPT ![dfUrl].cancelled = TRUE,
                          ![dfUrl].handleOpen = FALSE,
                          ![dfUrl].ret = "ok"]
    /\ IF ShouldRemux(cfg)
       THEN dfPc' = "remux" /\ dfResult' = dfResult
       ELSE dfPc' = "returned" /\ dfResult' = "path"
    /\ UNCHANGED <<nonDF, dfRemuxed, cfg, ctxDone, dfUrl, dfErrs, wk, fs, lastReport, getLog>>

\* case <-ctx.Done(): cancelDownload(); os.Remove(filePath); return ctx.Err()
\* (download.go:263-266)
RcdWaitCancelled ==
    /\ dfPc = "wait"
    /\ ctxDone
    /\ fs' = Removed
    /\ CandidateFailed(CtxErr)
    /\ rcd' = [rcd EXCEPT ![dfUrl].cancelled = TRUE,
                          ![dfUrl].handleOpen = FALSE,
                          ![dfUrl].ret = "ctx"]
    /\ UNCHANGED <<nonDF, dfRemuxed, cfg, ctxDone, wk, lastReport, getLog>>

\* av.RemuxFile(filePath): nil, or an error returned as "remuxing failed"
\* (download.go:59-65)
DFRemux ==
    /\ dfPc = "remux"
    /\ \E ok \in BOOLEAN :
         dfResult' = IF ok THEN "path" ELSE "remuxFailed"
    /\ dfRemuxed' = Append(dfRemuxed, dfUrl)
    /\ dfPc' = "returned"
    /\ UNCHANGED <<nonDF, cfg, ctxDone, dfUrl, dfErrs, rcd, wk, fs, lastReport, getLog>>

\* The caller cancels ctx.
Cancel ==
    /\ dfPc # "off"
    /\ ~ctxDone
    /\ ctxDone' = TRUE
    /\ UNCHANGED <<nonDF, dfRemuxed, cfg, dfPc, dfUrl, dfErrs, dfResult, rcd, wk, fs,
                   lastReport, getLog>>

(***************************************************************************)
(* The chunk goroutine (download.go:206-248), downloadChunkWithRetry       *)
(* (295-322) and downloadChunk (324-351).                                  *)
(***************************************************************************)

SetWk(k, i, r) == wk' = [wk EXCEPT ![<<k, i>>] = r]

\* select { case semaphore <- struct{}{}: ...  }: a slot is free
WAcquire(k, i) ==
    /\ wk[<<k, i>>].pc = "acquire"
    /\ SlotFree(rcd[k].sem, cfg.Concurrency)
    /\ rcd' = [rcd EXCEPT ![k].sem = @ + 1]
    /\ SetWk(k, i, [wk[<<k, i>>] EXCEPT !.pc = "attempt"])
    /\ UNCHANGED <<nonDF, dfRemuxed, cfg, ctxDone, dfPc, dfUrl, dfErrs, dfResult, fs, lastReport, getLog>>

\* select { ... case <-downloadCtx.Done(): return }
WAcquireDone(k, i) ==
    /\ wk[<<k, i>>].pc = "acquire"
    /\ DownloadCtxDone(k)
    /\ SetWk(k, i, DoneWorker)
    /\ UNCHANGED <<nonDF, dfRemuxed, cfg, ctxDone, dfPc, dfUrl, dfErrs, dfResult, rcd, fs, lastReport, getLog>>

\* A retry loop that stops one attempt early.
RetryLoopCondShort(attempt, retryAttempts) == attempt < retryAttempts

\* for attempt := 0; attempt <= config.RetryAttempts; attempt++
RetryLoopCond(attempt, retryAttempts) == attempt <= retryAttempts

\* lastErr = err, the error of attempt `attempt` (errors are named by the
\* attempt that produced them)
LastErrAfter(prev, attempt) == attempt

\* if attempt > 0 { select { case <-ctx.Done(): return nil, ctx.Err() ... } }
WDelayCancelled(k, i) ==
    /\ wk[<<k, i>>].pc = "attempt"
    /\ wk[<<k, i>>].attempt > 0
    /\ DownloadCtxDone(k)
    /\ SetWk(k, i, [wk[<<k, i>>] EXCEPT !.pc = "fail",
                                        !.err = Err("retry", 0, "ctx", -1)])
    /\ UNCHANGED <<nonDF, dfRemuxed, cfg, ctxDone, dfPc, dfUrl, dfErrs, dfResult, rcd, fs, lastReport, getLog>>

\* One attempt (after time.After fired when attempt > 0): downloadChunk sends
\* a GET with the Range header.  It fails (always so when the context is
\* done): lastErr = err, attempt++, and when the loop condition fails
\* "all %d attempts failed: %w" wrapping lastErr is returned.
WRequestFail(k, i) ==
    LET w == wk[<<k, i>>]
        last == LastErrAfter(w.lastErr, w.attempt)
    IN /\ w.pc = "attempt"
       /\ getLog' = [getLog EXCEPT ![k] = @ \cup {RangeHeader(ChunkOf(k, i))}]
       /\ IF RetryLoopCond(w.attempt + 1, cfg.RetryAttempts)
          THEN SetWk(k, i, [w EXCEPT !.attempt = @ + 1, !.lastErr = last,
                                     !.requests = @ + 1])
          ELSE SetWk(k, i, [w EXCEPT !.attempt = @ + 1, !.lastErr = last,
                                     !.requests = @ + 1, !.pc = "fail",
                                     !.err = Err("retry", 0, "allFailed", last)])
       /\ UNCHANGED <<nonDF, dfRemuxed, cfg, ctxDone, dfPc, dfUrl, dfErrs, dfResult, rcd, fs, lastReport>>

\* The statuses downloadChunk accepts (download.go:346)
AcceptedStatus == {200, 206}

\* One attempt that succeeds: the status is accepted and io.ReadAll returns
\* the body.
WRequestOk(k, i) ==
    LET w == wk[<<k, i>>]
    IN /\ w.pc = "attempt"
       /\ ~DownloadCtxDone(k)
       /\ getLog' = [getLog EXCEPT ![k] = @ \cup {RangeHeader(ChunkOf(k, i))}]
       /\ \E status \in AcceptedStatus :
            SetWk(k, i, [w EXCEPT !.pc = "write", !.requests = @ + 1,
                           !.data = ResponseBody(status, RangeHeader(ChunkOf(k, i)),
                                                 rcd[k].fileSize)])
       /\ UNCHANGED <<nonDF, dfRemuxed, cfg, ctxDone, dfPc, dfUrl, dfErrs, dfResult, rcd, fs, lastReport>>

\* writeChunkToFile(file, chunkData, chunk[0]) succeeds (download.go:227, 353-356)
WWrite(k, i) ==
    LET w == wk[<<k, i>>]
    IN /\ w.pc = "write"
       /\ rcd[k].handleOpen
       /\ fs' = [fs EXCEPT !.content = WriteAt(@, w.data, ChunkOf(k, i)[1])]
       /\ SetWk(k, i, [IdleWorker EXCEPT !.pc = "progress"])
       /\ UNCHANGED <<nonDF, dfRemuxed, cfg, ctxDone, dfPc, dfUrl, dfErrs, dfResult, rcd, lastReport, getLog>>

\* writeChunkToFile fails: the file is closed (runChunkedDownload has
\* returned) or the disk write fails.
WWriteFail(k, i) ==
    LET w == wk[<<k, i>>]
    IN /\ w.pc = "write"
       /\ SetWk(k, i, [w EXCEPT !.pc = "fail", !.err = Err("write", 0, "", -1)])
       /\ UNCHANGED <<nonDF, dfRemuxed, cfg, ctxDone, dfPc, dfUrl, dfErrs, dfResult, rcd, fs, lastReport, getLog>>

\* progress := float64(completedBytes) / float64(fileSize), kept as the pair
\* <<completedBytes, fileSize>>
Progress(completedBytes, fileSize) == <<completedBytes, fileSize>>

\* progressMutex.Lock(); completedBytes += chunkSize; progress := ...; Unlock()
\* (download.go:237-242)
WProgress(k, i) ==
    LET w == wk[<<k, i>>]
        done == rcd[k].completedBytes + ChunkBytes(ChunkOf(k, i))
    IN /\ w.pc = "progress"
       /\ rcd' = [rcd EXCEPT ![k].completedBytes = done]
       /\ SetWk(k, i, [IdleWorker EXCEPT !.pc = "report",
                                         !.progress = Progress(done, rcd[k].fileSize)])
       /\ UNCHANGED <<nonDF, dfRemuxed, cfg, ctxDone, dfPc, dfUrl, dfErrs, dfResult, fs, lastReport, getLog>>

\* config.ProgressUpdater(progress), then the deferred <-semaphore and
\* wg.Done() (download.go:245-248, 207, 212)
WReport(k, i) ==
    LET w == wk[<<k, i>>]
    IN /\ w.pc = "report"
       /\ lastReport' = IF HasProgressUpdater THEN w.progress ELSE lastReport
       /\ rcd' = [rcd EXCEPT ![k].sem = @ - 1]
       /\ SetWk(k, i, DoneWorker)
       /\ UNCHANGED <<nonDF, dfRemuxed, cfg, ctxDone, dfPc, dfUrl, dfErrs, dfResult, fs, getLog>>

\* downloadErr = fmt.Errorf("chunk %d: %w", idx, err) or
\* fmt.Errorf("failed to write chunk %d: %w", idx, err)
DownloadErrOf(i, err) ==
    IF err.kind = "write"
    THEN Err("write", i - 1, "", -1)
    ELSE Err("chunk", i - 1, err.cause, err.last)

\* A latch that runs its function on every call.
OnceDoAlways(done) == TRUE

\* errOnce.Do(f) runs f: no earlier call of Do has run it (sync.Once)
OnceDo(done) == ~done

\* errOnce.Do(func() { downloadErr = ...; cancelDownload(); errChan <- downloadErr })
\* then return: the deferred <-semaphore and wg.Done() (download.go:218-234)
WFail(k, i) ==
    LET w == wk[<<k, i>>]
    IN /\ w.pc = "fail"
       /\ IF ~OnceDo(rcd[k].once)
          THEN rcd' = [rcd EXCEPT ![k].sem = @ - 1]
          ELSE /\ Len(rcd[k].errChan) < 1
               /\ rcd' = [rcd EXCEPT ![k].sem = @ - 1,
                                     ![k].once = TRUE,
                                     ![k].downloadErr = DownloadErrOf(i, w.err),
                                     ![k].cancelled = TRUE,
                                     ![k].errChan = Append(@, DownloadErrOf(i, w.err))]
       /\ SetWk(k, i, DoneWorker)
       /\ UNCHANGED <<nonDF, dfRemuxed, cfg, ctxDone, dfPc, dfUrl, dfErrs, dfResult, fs, lastReport, getLog>>

WorkerStep(k, i) ==
    \/ WAcquire(k, i)
    \/ WAcquireDone(k, i)
    \/ WDelayCancelled(k, i)
    \/ WRequestFail(k, i)
    \/ WRequestOk(k, i)
    \/ WWrite(k, i)
    \/ WWriteFail(k, i)
    \/ WProgress(k, i)
    \/ WReport(k, i)
    \/ WFail(k, i)

DFStep ==
    \/ DFExhausted
    \/ DFCancelled
    \/ DFEnsureDir
    \/ RcdProbeFail
    \/ RcdProbeOk
    \/ RcdCreateFail
    \/ RcdTruncateFail
    \/ RcdStart
    \/ RcdWaitErr
    \/ RcdWaitClosed
    \/ RcdWaitCancelled
    \/ DFRemux

Next ==
    \/ DFStep
    \/ \E k \in URLs : RcdCloser(k)
    \/ \E k \in URLs, i \in 1..MaxChunks : WorkerStep(k, i)
    \/ Cancel

Spec == Init /\ [][Next]_vars

(***************************************************************************)
(* DownloadFileWithSegments (download.go:72-102), DownloadSegments         *)
(* (378-444) and MergeSegmentFiles (446-512).  The DownloadFile call of a  *)
(* segment goroutine is followed through its own steps on the file system; *)
(* the chunk phase of its runChunkedDownload is one step with the outcomes *)
(* the chunk model above has (nil, or an error after os.Remove).           *)
(***************************************************************************)

SegConfigs == [Concurrency : 0..MaxSegConcurrency, Remux : BOOLEAN]

SGInit ==
    /\ sgCfg \in SegConfigs
    /\ sgPc = "mkdir1"
    /\ SGIdle
    /\ CCOff
    /\ DFOff
    /\ RDOff

\* "segments_" + time.Now().Format("20060102_150405"): the name is a function
\* of the second in which it is computed (download.go:84, 387).
TempDirName(now) == now

\* os.RemoveAll(dir): the directories left
RemoveAllDirs(dir) == dirs \ {dir}

\* os.RemoveAll(dir): the segment files left (they all live in sgDir2)
RemoveAllFiles(dir) ==
    IF dir = sgDir2 THEN [i \in Segs |-> FALSE] ELSE segFile

\* A second passes between the two computations of the directory name.
Tick ==
    /\ sgPc = "mkdir2"
    /\ clock < MaxClock
    /\ clock' = clock + 1
    /\ UNCHANGED <<nonSG, sgRemuxed, sgCfg, sgCtxDone, sgPc, sgResult, sgDir1, sgDir2, dirs,
                   segFile, sgOut, sgSem, sgErrChan, sgClosed, downloadedFiles,
                   sw, sgMergeI>>

\* The caller cancels ctx.
SGCancel ==
    /\ ~sgCtxDone
    /\ sgPc \notin {"off", "returned"}
    /\ sgCtxDone' = TRUE
    /\ UNCHANGED <<nonSG, sgRemuxed, sgCfg, sgPc, sgResult, clock, sgDir1, sgDir2, dirs,
                   segFile, sgOut, sgSem, sgErrChan, sgClosed, downloadedFiles,
                   sw, sgMergeI>>

\* ensureDownloadDir; tempDir := ...; os.MkdirAll(tempDir), which can fail
\* (download.go:81-87)
SGMkdir1 ==
    /\ sgPc = "mkdir1"
    /\ \E ok \in BOOLEAN :
         IF ok
         THEN /\ sgDir1' = TempDirName(clock)
              /\ dirs' = dirs \cup {TempDirName(clock)}
              /\ sgPc' = "mkdir2"
              /\ sgResult' = sgResult
         ELSE /\ sgPc' = "returned"
              /\ sgResult' = SgRes("mkdir", -1, "")
              /\ UNCHANGED <<sgDir1, dirs>>
    /\ UNCHANGED <<nonSG, sgRemuxed, sgCfg, sgCtxDone, clock, sgDir2, segFile, sgOut, sgSem,
                   sgErrChan, sgClosed, downloadedFiles, sw, sgMergeI>>

\* DownloadSegments: tempDir := ...; os.MkdirAll(tempDir); the go statements
\* of the loop over segmentURLs (download.go:387-429)
SGMkdir2 ==
    /\ sgPc = "mkdir2"
    /\ sgDir2' = TempDirName(clock)
    /\ dirs' = dirs \cup {TempDirName(clock)}
    /\ sw' = [i \in Segs |-> "acquire"]
    /\ sgPc' = "range"
    /\ UNCHANGED <<nonSG, sgRemuxed, sgCfg, sgCtxDone, sgResult, clock, sgDir1, segFile, sgOut,
                   sgSem, sgErrChan, sgClosed, downloadedFiles, sgMergeI>>

\* DownloadSegments' os.MkdirAll fails: it returns the error, and
\* DownloadFileWithSegments removes its tempDir and returns (download.go:388-390, 89-92)
SGMkdir2Fail ==
    /\ sgPc = "mkdir2"
    /\ dirs' = RemoveAllDirs(sgDir1)
    /\ sgPc' = "returned"
    /\ sgResult' = SgRes("segment", -1, "mkdir")
    /\ UNCHANGED <<nonSG, sgRemuxed, sgCfg, sgCtxDone, clock, sgDir1, sgDir2, segFile, sgOut,
                   sgSem, sgErrChan, sgClosed, downloadedFiles, sw, sgMergeI>>

\* semaphore <- struct{}{}   (download.go:405)
SWAcquire(i) ==
    /\ sw[i] = "acquire"
    /\ SlotFree(sgSem, sgCfg.Concurrency)
    /\ sgSem' = sgSem + 1
    /\ sw' = [sw EXCEPT ![i] = "loop"]
    /\ UNCHANGED <<nonSG, sgRemuxed, sgCfg, sgCtxDone, sgPc, sgResult, clock, sgDir1, sgDir2,
                   dirs, segFile, sgOut, sgErrChan, sgClosed, downloadedFiles, sgMergeI>>

\* DownloadFile returned an error: errChan <- fmt.Errorf("failed to download
\* segment %d: %w", idx, err); return, with the deferred <-semaphore and
\* wg.Done() (download.go:422-425).  cause is "ctx" when err is ctx.Err().
SWFailed(i, cause) ==
    /\ Len(sgErrChan) < NumSegs   \* make(chan error, len(segmentURLs)) has room
    /\ sgErrChan' = Append(sgErrChan, [idx |-> i - 1, cause |-> cause])
    /\ sgSem' = sgSem - 1
    /\ sw' = [sw EXCEPT ![i] = "done"]

\* DownloadFile: case <-ctx.Done(): return "", ctx.Err()   (download.go:44-45)
SWLoopCancelled(i) ==
    /\ sw[i] = "loop"
    /\ sgCtxDone
    /\ SWFailed(i, "ctx")
    /\ UNCHANGED <<nonSG, sgRemuxed, sgCfg, sgCtxDone, sgPc, sgResult, clock, sgDir1, sgDir2,
                   dirs, segFile, sgOut, sgClosed, downloadedFiles, sgMergeI>>

\* DownloadFile: the select's default branch is taken (download.go:46)
SWLoopDefault(i) ==
    /\ sw[i] = "loop"
    /\ ~sgCtxDone
    /\ sw' = [sw EXCEPT ![i] = "ensure"]
    /\ UNCHANGED <<nonSG, sgRemuxed, sgCfg, sgCtxDone, sgPc, sgResult, clock, sgDir1, sgDir2,
                   dirs, segFile, sgOut, sgSem, sgErrChan, sgClosed, downloadedFiles,
                   sgMergeI>>

\* DownloadFile: ensureDownloadDir(tempDir): os.Stat, and os.MkdirAll when the
\* directory does not exist (download.go:48, 154-161)
SWEnsureDir(i) ==
    /\ sw[i] = "ensure"
    /\ dirs' = dirs \cup {sgDir2}
    /\ sw' = [sw EXCEPT ![i] = "probe"]
    /\ UNCHANGED <<nonSG, sgRemuxed, sgCfg, sgCtxDone, sgPc, sgResult, clock, sgDir1, sgDir2,
                   segFile, sgOut, sgSem, sgErrChan, sgClosed, downloadedFiles, sgMergeI>>

\* runChunkedDownload: getFileSize fails (always so once ctx is done); the
\* only candidate failed, so DownloadFile returns ErrDownloadFailed.
SWProbeFail(i) ==
    /\ sw[i] = "probe"
    /\ SWFailed(i, "downloadFailed")
    /\ UNCHANGED <<nonSG, sgRemuxed, sgCfg, sgCtxDone, sgPc, sgResult, clock, sgDir1, sgDir2,
                   dirs, segFile, sgOut, sgClosed, downloadedFiles, sgMergeI>>

SWProbeOk(i) ==
    /\ sw[i] = "probe"
    /\ ~sgCtxDone
    /\ sw' = [sw EXCEPT ![i] = "create"]
    /\ UNCHANGED <<nonSG, sgRemuxed, sgCfg, sgCtxDone, sgPc, sgResult, clock, sgDir1, sgDir2,
                   dirs, segFile, sgOut, sgSem, sgErrChan, sgClosed, downloadedFiles,
                   sgMergeI>>

\* runChunkedDownload: os.Create(filePath) fails (always so when the
\* directory is gone)
SWCreateFail(i) ==
    /\ sw[i] = "create"
    /\ SWFailed(i, "downloadFailed")
    /\ UNCHANGED <<nonSG, sgRemuxed, sgCfg, sgCtxDone, sgPc, sgResult, clock, sgDir1, sgDir2,
                   dirs, segFile, sgOut, sgClosed, downloadedFiles, sgMergeI>>

\* runChunkedDownload: os.Create succeeds, file.Truncate fails
SWTruncateFail(i) ==
    /\ sw[i] = "create"
    /\ sgDir2 \in dirs
    /\ segFile' = [segFile EXCEPT ![i] = TRUE]
    /\ SWFailed(i, "downloadFailed")
    /\ UNCHANGED <<nonSG, sgRemuxed, sgCfg, sgCtxDone, sgPc, sgResult, clock, sgDir1, sgDir2,
                   dirs, sgOut, sgClosed, downloadedFiles, sgMergeI>>

\* runChunkedDownload: os.Create and the pre-allocation succeed; the chunk
\* goroutines start
SWCreate(i) ==
    /\ sw[i] = "create"
    /\ sgDir2 \in dirs
    /\ segFile' = [segFile EXCEPT ![i] = TRUE]
    /\ sw' = [sw EXCEPT ![i] = "chunks"]
    /\ UNCHANGED <<nonSG, sgRemuxed, sgCfg, sgCtxDone, sgPc, sgResult, clock, sgDir1, sgDir2,
                   dirs, sgOut, sgSem, sgErrChan, sgClosed, downloadedFiles, sgMergeI>>

\* The config DownloadSegments passes to the DownloadFile of a segment
\* (download.go:411-420)
SegmentConfig == [Concurrency |-> 3, Remux |-> FALSE]

\* runChunkedDownload returns nil; DownloadFile remuxes when its config says
\* so and returns the path: downloadedFiles[idx] = segmentPath
\* (download.go:59-65, 427)
SWChunksOk(i) ==
    /\ sw[i] = "chunks"
    /\ sgRemuxed' = IF ShouldRemux(SegmentConfig) THEN Append(sgRemuxed, i)
                    ELSE sgRemuxed
    /\ downloadedFiles' = [downloadedFiles EXCEPT ![i] = SegmentPath(i - 1)]
    /\ sgSem' = sgSem - 1
    /\ sw' = [sw EXCEPT ![i] = "done"]
    /\ UNCHANGED <<nonSG, sgCfg, sgCtxDone, sgPc, sgResult, clock, sgDir1, sgDir2,
                   dirs, segFile, sgOut, sgErrChan, sgClosed, sgMergeI>>

\* runChunkedDownload fails in the chunk phase (a chunk error, or ctx is
\* done): os.Remove(filePath) and the error; DownloadFile returns
\* ErrDownloadFailed (download.go:256-267, 69)
SWChunksFail(i) ==
    /\ sw[i] = "chunks"
    /\ segFile' = [segFile EXCEPT ![i] = FALSE]
    /\ SWFailed(i, "downloadFailed")
    /\ UNCHANGED <<nonSG, sgRemuxed, sgCfg, sgCtxDone, sgPc, sgResult, clock, sgDir1, sgDir2,
                   dirs, sgOut, sgClosed, downloadedFiles, sgMergeI>>

\* A closer that closes errChan without waiting for the segment goroutines.
SGCloserNoWait ==
    /\ sgPc # "off"
    /\ ~sgClosed
    /\ sgClosed' = TRUE
    /\ UNCHANGED <<nonSG, sgRemuxed, sgCfg, sgCtxDone, sgPc, sgResult, clock, sgDir1, sgDir2,
                   dirs, segFile, sgOut, sgSem, sgErrChan, downloadedFiles, sw, sgMergeI>>

\* go func() { wg.Wait(); close(errChan) }()   (download.go:431-434)
SGCloser ==
    /\ sgPc # "off"
    /\ ~sgClosed
    /\ \A i \in Segs : sw[i] = "done"
    /\ sgClosed' = TRUE
    /\ UNCHANGED <<nonSG, sgRemuxed, sgCfg, sgCtxDone, sgPc, sgResult, clock, sgDir1, sgDir2,
                   dirs, segFile, sgOut, sgSem, sgErrChan, downloadedFiles, sw, sgMergeI>>

\* for err := range errChan { os.RemoveAll(tempDir); return nil, err }
\* (download.go:436-441)
SGRangeErr ==
    /\ sgPc = "range"
    /\ sgErrChan # << >>
    /\ dirs' = RemoveAllDirs(sgDir2)
    /\ segFile' = RemoveAllFiles(sgDir2)
    /\ sgResult' = SgRes("pending", Head(sgErrChan).idx, Head(sgErrChan).cause)
    /\ sgErrChan' = Tail(sgErrChan)
    /\ sgPc' = "segfail"
    /\ UNCHANGED <<nonSG, sgRemuxed, sgCfg, sgCtxDone, clock, sgDir1, sgDir2, sgOut, sgSem,
                   sgClosed, downloadedFiles, sw, sgMergeI>>

\* DownloadSegments returned an error: os.RemoveAll(tempDir); return
\* "failed to download segments: %w"   (download.go:89-92)
SGSegFail ==
    /\ sgPc = "segfail"
    /\ dirs' = RemoveAllDirs(sgDir1)
    /\ segFile' = RemoveAllFiles(sgDir1)
    /\ sgResult' = SgRes("segment", sgResult.idx, sgResult.cause)
    /\ sgPc' = "returned"
    /\ UNCHANGED <<nonSG, sgRemuxed, sgCfg, sgCtxDone, clock, sgDir1, sgDir2, sgOut, sgSem,
                   sgErrChan, sgClosed, downloadedFiles, sw, sgMergeI>>

\* The range loop ends on the closed, empty channel: return downloadedFiles
\* (download.go:443)
SGRangeClosed ==
    /\ sgPc = "range"
    /\ sgErrChan = << >>
    /\ sgClosed
    /\ sgPc' = "mergeCreate"
    /\ UNCHANGED <<nonSG, sgRemuxed, sgCfg, sgCtxDone, sgResult, clock, sgDir1, sgDir2, dirs,
                   segFile, sgOut, sgSem, sgErrChan, sgClosed, downloadedFiles, sw,
                   sgMergeI>>

\* MergeSegmentFiles returned an error: DownloadFileWithSegments removes its
\* tempDir and returns "failed to merge segments: %w"   (download.go:94-97)
MergeFailed(cause) ==
    /\ dirs' = RemoveAllDirs(sgDir1)
    /\ segFile' = RemoveAllFiles(sgDir1)
    /\ sgResult' = SgRes("merge", -1, cause)
    /\ sgPc' = "returned"

\* MergeSegmentFiles: ensureDownloadDir; os.Create(outputPath)
\* (download.go:456-465)
SGMergeCreate ==
    /\ sgPc = "mergeCreate"
    /\ sgOut' = [exists |-> TRUE, content |-> << >>]
    /\ sgMergeI' = 1
    /\ sgPc' = "merge"
    /\ UNCHANGED <<nonSG, sgRemuxed, sgCfg, sgCtxDone, sgResult, clock, sgDir1, sgDir2, dirs,
                   segFile, sgSem, sgErrChan, sgClosed, downloadedFiles, sw>>

SGMergeCreateFail ==
    /\ sgPc = "mergeCreate"
    /\ MergeFailed("create")
    /\ UNCHANGED <<nonSG, sgRemuxed, sgCfg, sgCtxDone, clock, sgDir1, sgDir2, sgOut, sgSem,
                   sgErrChan, sgClosed, downloadedFiles, sw, sgMergeI>>

\* case <-ctx.Done(): return "", ctx.Err()   (download.go:481-482)
SGMergeCancelled ==
    /\ sgPc = "merge"
    /\ sgMergeI <= NumSegs
    /\ sgCtxDone
    /\ MergeFailed("ctx")
    /\ UNCHANGED <<nonSG, sgRemuxed, sgCfg, sgCtxDone, clock, sgDir1, sgDir2, sgOut, sgSem,
                   sgErrChan, sgClosed, downloadedFiles, sw, sgMergeI>>

\* default: os.Open(segmentPath) fails (always so when the file is gone)
\* (download.go:484-487)
SGMergeOpenFail ==
    /\ sgPc = "merge"
    /\ sgMergeI <= NumSegs
    /\ ~sgCtxDone
    /\ MergeFailed("open")
    /\ UNCHANGED <<nonSG, sgRemuxed, sgCfg, sgCtxDone, clock, sgDir1, sgDir2, sgOut, sgSem,
                   sgErrChan, sgClosed, downloadedFiles, sw, sgMergeI>>

\* segmentPaths[i], as the index of the segment file it names
MergePath(i) == downloadedFiles[i] + 1

\* io.Copy(outputFile, segmentFile) fails   (download.go:489-494)
SGMergeCopyFail ==
    /\ sgPc = "merge"
    /\ sgMergeI <= NumSegs
    /\ ~sgCtxDone
    /\ MergePath(sgMergeI) \in Segs
    /\ segFile[MergePath(sgMergeI)]
    /\ MergeFailed("copy")
    /\ UNCHANGED <<nonSG, sgRemuxed, sgCfg, sgCtxDone, clock, sgDir1, sgDir2, sgOut, sgSem,
                   sgErrChan, sgClosed, downloadedFiles, sw, sgMergeI>>

\* io.Copy appends the file at segmentPaths[i] to the output
SGMergeCopy ==
    /\ sgPc = "merge"
    /\ sgMergeI <= NumSegs
    /\ ~sgCtxDone
    /\ MergePath(sgMergeI) \in Segs
    /\ segFile[MergePath(sgMergeI)]
    /\ sgOut' = [sgOut EXCEPT !.content = Append(@, SegmentUrl(downloadedFiles[sgMergeI]))]
    /\ sgMergeI' = sgMergeI + 1
    /\ UNCHANGED <<nonSG, sgRemuxed, sgCfg, sgCtxDone, sgPc, sgResult, clock, sgDir1, sgDir2,
                   dirs, segFile, sgSem, sgErrChan, sgClosed, downloadedFiles, sw>>

\* The loop is over: if config.Remux { av.RemuxFile(outputPath) }; a remux
\* error is returned as it is (download.go:504-511)
SGMergeRemuxFail ==
    /\ sgPc = "merge"
    /\ sgMergeI > NumSegs
    /\ ShouldRemux(sgCfg)
    /\ sgRemuxed' = Append(sgRemuxed, 0)
    /\ MergeFailed("remux")
    /\ UNCHANGED <<nonSG, sgCfg, sgCtxDone, clock, sgDir1, sgDir2, sgOut, sgSem,
                   sgErrChan, sgClosed, downloadedFiles, sw, sgMergeI>>

\* MergeSegmentFiles remuxes the output when config.Remux and returns
\* outputPath; os.RemoveAll(tempDir); return mergedFilePath
\* (download.go:504-511, 98-101)
SGFinish ==
    /\ sgPc = "merge"
    /\ sgMergeI > NumSegs
    /\ sgRemuxed' = IF ShouldRemux(sgCfg) THEN Append(sgRemuxed, 0) ELSE sgRemuxed
    /\ dirs' = RemoveAllDirs(sgDir1)
    /\ segFile' = RemoveAllFiles(sgDir1)
    /\ sgResult' = SgRes("path", -1, "")
    /\ sgPc' = "returned"
    /\ UNCHANGED <<nonSG, sgCfg, sgCtxDone, clock, sgDir1, sgDir2, sgOut, sgSem,
                   sgErrChan, sgClosed, downloadedFiles, sw, sgMergeI>>

SegWorkerStep(i) ==
    \/ SWAcquire(i)
    \/ SWLoopCancelled(i)
    \/ SWLoopDefault(i)
    \/ SWEnsureDir(i)
    \/ SWProbeFail(i)
    \/ SWProbeOk(i)
    \/ SWCreateFail(i)
    \/ SWTruncateFail(i)
    \/ SWCreate(i)
    \/ SWChunksOk(i)
    \/ SWChunksFail(i)

SGNext ==
    \/ Tick
    \/ SGCancel
    \/ SGMkdir1
    \/ SGMkdir2
    \/ SGMkdir2Fail
    \/ SGCloser
    \/ SGRangeErr
    \/ SGSegFail
    \/ SGRangeClosed
    \/ SGMergeCreate
    \/ SGMergeCreateFail
    \/ SGMergeCancelled
    \/ SGMergeOpenFail
    \/ SGMergeCopyFail
    \/ SGMergeCopy
    \/ SGMergeRemuxFail
    \/ SGFinish
    \/ \E i \in Segs : SegWorkerStep(i)

SpecSegments == SGInit /\ [][SGNext]_vars

\* The Go scheduler runs a goroutine that can take a step: DownloadSegments,
\* its segment goroutines and the closer (download.go:401-434) do not stay
\* forever at a step they can take.
FairSpecSegments == SpecSegments /\ WF_vars(SGNext)

(***************************************************************************)
(* The download subsystem as a whole: one call of DownloadFile or one call *)
(* of DownloadFileWithSegments.                                            *)
(***************************************************************************)
DownloadInit == Init \/ SGInit

DownloadNext == Next \/ SGNext

SpecDownload == DownloadInit /\ [][DownloadNext]_vars

(***************************************************************************)
(* The Reddit extractors (ext/reddit): ShortExtractor.Run, Extractor.Run,  *)
(* MediaListFromAPI and GetRedditData.  GetHLSFormats is not part of the   *)
(* sources at hand: it returns an error or a list of formats.              *)
(***************************************************************************)

\* Hosts the URLPattern's host group can capture.
Hosts == {"www.reddit.com", "old.reddit.com", "old.redditmedia.com"}

\* Status codes of a response; 204 is a 2xx that is not 200.
Statuses == {200, 204, 404, 500}

\* res.Request.URL.String() after the redirects were followed.
Locations == {"https://www.reddit.com/r/x/comments/abc", "https://www.reddit.com/r/x/s/abc"}

\* obj.Type of an entry of media_metadata
ObjTypes == {"Image", "AnimatedImage", "RedditVideo"}

\* data.MediaMetadata in the order the range loop visits it
Galleries == UNION {[1..n -> ObjTypes] : n \in 0..MaxGallery}

\* What the decoder can produce: an empty manifest, a listing without
\* children, or a post with the fields MediaListFromAPI reads.
DataShapes ==
    {[shape |-> "empty"], [shape |-> "nochildren"]} \cup
    [shape : {"post"},
     IsVideo : BOOLEAN,
     Preview : {"nil", "noimages", "images"},
     VideoPreview : BOOLEAN,
     MP4 : BOOLEAN,
     MediaMetadata : Galleries,
     Video : {"none", "media", "secure"}]

RedditInit ==
    /\ rdKind \in {"short", "reddit"}
    /\ rdPc = (IF rdKind = "short" THEN "short" ELSE "get")
    /\ rdHost \in (IF rdKind = "short" THEN {"www.reddit.com"} ELSE Hosts)
    /\ rdRaise = FALSE
    /\ rdCookies \in BOOLEAN
    /\ rdRequests = << >>
    /\ rdData = NoData
    /\ rdResp = NoResponse
    /\ rdErr = "nil"
    /\ CCOff
    /\ DFOff
    /\ SGOff

\* Run returns (resp, err)
Return(resp, err) ==
    /\ rdResp' = resp
    /\ rdErr' = err
    /\ rdPc' = "returned"

\* A retry that goes to the host that just failed.
AltHostSame(host) == host

\* altHost := "old.reddit.com"; if host == "old.reddit.com" { altHost = "www.reddit.com" }
AltHost(host) ==
    IF host = "old.reddit.com" THEN "www.reddit.com" ELSE "old.reddit.com"

\* ShortExtractor.Run: util.ParseCookieFile fails (part_000:71-74)
RsCookiesFail ==
    /\ rdPc = "short"
    /\ ~rdCookies
    /\ Return(NoResponse, "cookies")
    /\ UNCHANGED <<nonRD, rdKind, rdHost, rdRaise, rdCookies, rdRequests, rdData>>

\* ShortExtractor.Run: client.Do fails (part_000:79-82)
RsSendFail ==
    /\ rdPc = "short"
    /\ rdCookies
    /\ Return(NoResponse, "send")
    /\ UNCHANGED <<nonRD, rdKind, rdHost, rdRaise, rdCookies, rdRequests, rdData>>

\* ShortExtractor.Run: location := res.Request.URL.String();
\* return &ExtractorResponse{URL: location}   (part_000:85-89)
RsOk ==
    /\ rdPc = "short"
    /\ rdCookies
    /\ \E location \in Locations : Return(Response(location, << >>), "nil")
    /\ UNCHANGED <<nonRD, rdKind, rdHost, rdRaise, rdCookies, rdRequests, rdData>>

\* GetRedditData: util.ParseCookieFile fails (part_000:272-275); Run wraps
\* the error (part_000:103-105)
RdCookiesFail ==
    /\ rdPc = "get"
    /\ ~rdCookies
    /\ Return(NoResponse, "cookies")
    /\ UNCHANGED <<nonRD, rdKind, rdHost, rdRaise, rdCookies, rdRequests, rdData>>

\* GetRedditData: session.Do fails: no response (part_000:280-283)
RdSendFail ==
    /\ rdPc = "get"
    /\ rdCookies
    /\ rdRequests' = Append(rdRequests, [host |-> rdHost, status |-> 0])
    /\ Return(NoResponse, "send")
    /\ UNCHANGED <<nonRD, rdKind, rdHost, rdRaise, rdCookies, rdData>>

\* GetRedditData: res.StatusCode != 200 and raise is false:
\* return GetRedditData(session, altHost, slug, true)   (part_000:286-297)
RdStatusRetry ==
    /\ rdPc = "get"
    /\ rdCookies
    /\ ~rdRaise
    /\ \E status \in Statuses \ {200} :
         rdRequests' = Append(rdRequests, [host |-> rdHost, status |-> status])
    /\ rdHost' = AltHost(rdHost)
    /\ rdRaise' = TRUE
    /\ UNCHANGED <<nonRD, rdKind, rdPc, rdCookies, rdData, rdResp, rdErr>>

\* GetRedditData: res.StatusCode != 200 and raise is true:
\* "failed to get reddit data"   (part_000:286-289)
RdStatusFatal ==
    /\ rdPc = "get"
    /\ rdCookies
    /\ rdRaise
    /\ \E status \in Statuses \ {200} :
         rdRequests' = Append(rdRequests, [host |-> rdHost, status |-> status])
    /\ Return(NoResponse, "status")
    /\ UNCHANGED <<nonRD, rdKind, rdHost, rdRaise, rdCookies, rdData>>

\* GetRedditData: status 200, decoder.Decode fails (part_000:299-304)
RdDecodeFail ==
    /\ rdPc = "get"
    /\ rdCookies
    /\ rdRequests' = Append(rdRequests, [host |-> rdHost, status |-> 200])
    /\ Return(NoResponse, "parse")
    /\ UNCHANGED <<nonRD, rdKind, rdHost, rdRaise, rdCookies, rdData>>

\* GetRedditData: status 200, return response, nil (part_000:299-306)
RdDecodeOk ==
    /\ rdPc = "get"
    /\ rdCookies
    /\ rdRequests' = Append(rdRequests, [host |-> rdHost, status |-> 200])
    /\ rdData' \in DataShapes
    /\ rdPc' = "media"
    /\ UNCHANGED <<nonRD, rdKind, rdHost, rdRaise, rdCookies, rdResp, rdErr>>

\* The branch of MediaListFromAPI a post takes (part_000:134-255)
Branch(d) ==
    IF ~d.IsVideo
    THEN IF d.Preview = "images"
         THEN IF d.VideoPreview THEN "videoPreview"
              ELSE IF d.MP4 THEN "animated"
              ELSE "photo"
         ELSE IF Len(d.MediaMetadata) > 0 THEN "gallery"
         ELSE "none"
    ELSE IF d.Video # "none" THEN "video"
    ELSE "none"

\* The list built from a gallery: one Media per entry, with a format when
\* the entry is an Image or an AnimatedImage (part_000:189-214)
GalleryMedia(collection) ==
    [j \in 1..Len(collection) |->
        Media(IF collection[j] \in {"Image", "AnimatedImage"} THEN 1 ELSE 0)]

\* if len(manifest) == 0 || len(manifest[0].Data.Children) == 0
\* (part_000:126-128)
RdNoData ==
    /\ rdPc = "media"
    /\ rdData.shape \in {"empty", "nochildren"}
    /\ Return(NoResponse, "nodata")
    /\ UNCHANGED <<nonRD, rdKind, rdHost, rdRaise, rdCookies, rdRequests, rdData>>

\* The call of GetHLSFormats for a video preview or a video
\* (part_000:145-149, 237-241)
RdHLSCall ==
    /\ rdPc = "media"
    /\ rdData.shape = "post"
    /\ Branch(rdData) \in {"videoPreview", "video"}
    /\ rdPc' = "hls"
    /\ UNCHANGED <<nonRD, rdKind, rdHost, rdRaise, rdCookies, rdRequests, rdData,
                   rdResp, rdErr>>

\* GetHLSFormats returns an error (part_000:150-152, 242-244)
RdHLSFail ==
    /\ rdPc = "hls"
    /\ Return(NoResponse, "hls")
    /\ UNCHANGED <<nonRD, rdKind, rdHost, rdRaise, rdCookies, rdRequests, rdData>>

\* GetHLSFormats returns formats: return []*models.Media{media}, nil
\* (part_000:154-158, 246-250)
RdHLSOk ==
    /\ rdPc = "hls"
    /\ \E n \in 0..MaxFormats : Return(Response("", <<Media(n)>>), "nil")
    /\ UNCHANGED <<nonRD, rdKind, rdHost, rdRaise, rdCookies, rdRequests, rdData>>

\* The animated image and the plain photo: one Media with one format
\* (part_000:162-182)
RdImage ==
    /\ rdPc = "media"
    /\ rdData.shape = "post"
    /\ Branch(rdData) \in {"animated", "photo"}
    /\ Return(Response("", <<Media(1)>>), "nil")
    /\ UNCHANGED <<nonRD, rdKind, rdHost, rdRaise, rdCookies, rdRequests, rdData>>

\* The gallery (part_000:186-215)
RdGallery ==
    /\ rdPc = "media"
    /\ rdData.shape = "post"
    /\ Branch(rdData) = "gallery"
    /\ Return(Response("", GalleryMedia(rdData.MediaMetadata)), "nil")
    /\ UNCHANGED <<nonRD, rdKind, rdHost, rdRaise, rdCookies, rdRequests, rdData>>

\* no media found: return nil, nil; Run returns
\* &ExtractorResponse{MediaList: nil}, nil   (part_000:254-255, 106-108)
RdNone ==
    /\ rdPc = "media"
    /\ rdData.shape = "post"
    /\ Branch(rdData) = "none"
    /\ Return(Response("", << >>), "nil")
    /\ UNCHANGED <<nonRD, rdKind, rdHost, rdRaise, rdCookies, rdRequests, rdData>>

RedditNext ==
    \/ RsCookiesFail
    \/ RsSendFail
    \/ RsOk
    \/ RdCookiesFail
    \/ RdSendFail
    \/ RdStatusRetry
    \/ RdStatusFatal
    \/ RdDecodeFail
    \/ RdDecodeOk
    \/ RdNoData
    \/ RdHLSCall
    \/ RdHLSFail
    \/ RdHLSOk
    \/ RdImage
    \/ RdGallery
    \/ RdNone

SpecReddit == RedditInit /\ [][RedditNext]_vars

\* Run is sequential code whose calls return: a step that can be taken is
\* taken.
FairSpecReddit == SpecReddit /\ WF_vars(RedditNext)

(***************************************************************************)
(* The properties checked.                                                 *)
(***************************************************************************)

\* Candidate k's runChunkedDownload was entered.
Attempted(k) ==
    \/ rcd[k].ret # "none"
    \/ (dfUrl = k /\ dfPc \in {"head", "create", "wait"})

\* Candidate k's runChunkedDownload returned an error.
Failed(k) == rcd[k].ret \in {"err", "ctx"}

\* C1: DownloadFile tries the candidates in list order, one at a time: a
\* candidate is attempted only after every earlier one has failed; a returned
\* path comes from the first candidate whose chunked download succeeded, after
\* which no later candidate is attempted; DownloadFailed is returned only when
\* every candidate was attempted and failed, with one error per candidate.
C1_InOrder ==
    /\ \A k \in URLs : Attempted(k) => \A j \in 1..(k - 1) : Failed(j)
    /\ \A k \in URLs : rcd[k].ret = "ok" => \A j \in URLs : j > k => ~Attempted(j)
    /\ Len(dfErrs) = Cardinality({k \in URLs : Failed(k)})
    /\ dfResult = "path" =>
         /\ dfUrl \in URLs
         /\ rcd[dfUrl].ret = "ok"
         /\ \A j \in 1..(dfUrl - 1) : Failed(j)
    /\ dfResult = "downloadFailed" =>
         /\ \A k \in URLs : Failed(k)
         /\ Len(dfErrs) = NumURLs

\* C1 witness: the first candidate failed and the second one yields the path.
C1_Witness ==
    /\ dfResult = "path"
    /\ dfUrl = 2
    /\ Failed(1)
    /\ Len(dfErrs) = 1

\* An error of errs that is the caller's cancellation: ctx.Err() returned by
\* the select of runChunkedDownload, or by a chunk's retry delay.
IsCtxErr(e) == e.kind = "ctx" \/ (e.kind = "chunk" /\ e.cause = "ctx")

\* C2 (as claimed): when a candidate's chunk download ended with the caller's
\* cancellation error, DownloadFile returns the Cancelled error and never
\* DownloadFailed.
C2_CancelledNotDownloadFailed ==
    (dfPc = "returned" /\ \E j \in 1..Len(dfErrs) : IsCtxErr(dfErrs[j]))
        => dfResult = "cancelled"

\* C3 (as claimed): once DownloadFileWithSegments has returned the caller's
\* cancellation error, there is no output file and no segments_* directory.
C3_CancelLeavesNothing ==
    (sgPc = "returned" /\ sgResult.cause = "ctx")
        => (~sgOut.exists /\ dirs = {})

\* C4 (as claimed): when DownloadFile returns an error, no file it created
\* exists at filePath.
C4_NoFileOnFailure ==
    (dfPc = "returned" /\ dfResult # "path") => ~fs.exists

\* C5 (as claimed): after a segment failed terminally the operation fails
\* naming a failed segment, there is no merged output, and the segments_*
\* directory does not exist at the return nor at any time after it.  Stated
\* for the runs in which the caller never cancels.
C5_SegmentFailureCleansUp ==
    (sgPc = "returned" /\ sgResult.kind = "segment" /\ sgResult.idx >= 0
        /\ ~sgCtxDone)
        => (/\ sgResult.idx + 1 \in Segs
            /\ ~sgOut.exists
            /\ dirs = {})

\* C6 (as claimed): after a successful DownloadFileWithSegments no segments_*
\* directory remains, whatever the clock was at the two computations of the
\* directory name.
C6_TempDirRemovedOnSuccess ==
    (sgPc = "returned" /\ sgResult.kind = "path") => dirs = {}

\* A progress value <<completedBytes, fileSize>> is the float64 quotient:
\* +Inf when fileSize is 0 (completedBytes is positive), negative when
\* fileSize is -1.
InUnit(p) == p[2] > 0 /\ 0 <= p[1] /\ p[1] <= p[2]

\* p <= q as float64 values (both sides scaled by the squared denominators).
LeqProgress(p, q) ==
    IF q[2] = 0 THEN TRUE
    ELSE IF p[2] = 0 THEN FALSE
    ELSE p[1] * p[2] * q[2] * q[2] <= q[1] * q[2] * p[2] * p[2]

\* C7 (as claimed): every value passed to ProgressUpdater lies in [0, 1] and
\* is not below the value passed before it.
C7_ProgressMonotone ==
    [][lastReport' # lastReport =>
         (InUnit(lastReport') /\ LeqProgress(lastReport, lastReport'))]_vars

\* C8: a chunk whose downloadChunkWithRetry fails although its context is not
\* cancelled has issued exactly RetryAttempts + 1 requests, and the error
\* wraps the error of the last of them (attempt number RetryAttempts); the
\* only other error return is ctx.Err(), under a cancelled context.
C8_RetryExhaustion ==
    \A w \in Workers :
        (wk[w].pc = "fail" /\ wk[w].err.kind = "retry") =>
            IF wk[w].err.cause = "allFailed"
            THEN /\ wk[w].requests = cfg.RetryAttempts + 1
                 /\ wk[w].err.last = cfg.RetryAttempts
            ELSE /\ wk[w].err.cause = "ctx"
                 /\ DownloadCtxDone(w[1])

\* C8 witness: with one retry configured and no cancellation, a chunk has
\* failed after all its attempts.
C8_Witness ==
    \E w \in Workers :
        /\ wk[w].pc = "fail"
        /\ wk[w].err.cause = "allFailed"
        /\ cfg.RetryAttempts = 1
        /\ wk[w].requests = 2
        /\ ~DownloadCtxDone(w[1])

\* The bytes of a response body <<first, last>>.
BodyBytes(data) == [j \in 1..Max(data[2] - data[1] + 1, 0) |-> data[1] + j]

\* C9 (as claimed): for a candidate whose probe reported no size (or 0) there
\* is one chunk, hence one GET per attempt; no GET carries a Range header;
\* the file is not pre-truncated; and after success the file holds the body
\* of the response.
C9_UnknownSizeUnranged ==
    \A k \in URLs :
        (rcd[k].started /\ rcd[k].fileSize <= 0) =>
            /\ Len(ChunksOf(k)) = 1
            /\ getLog[k] \subseteq {NoRange}
            /\ ~rcd[k].truncated
            /\ rcd[k].ret = "ok" =>
                 \E status \in AcceptedStatus :
                     fs.content = BodyBytes(ResponseBody(status, <<0, 0>>, rcd[k].fileSize))

\* The bytes covered by chunks 1..n of a slice.
RECURSIVE SumBytes(_, _)
SumBytes(chunks, n) ==
    IF n = 0 THEN 0 ELSE SumBytes(chunks, n - 1) + ChunkBytes(chunks[n])

Covered(chunks) ==
    UNION {chunks[k][1]..chunks[k][2] : k \in 1..Len(chunks)}

\* The chunks cover [0, N) exactly, their sizes add up to N, and each chunk
\* starts right after the one before it.
IsPartition(chunks, N) ==
    /\ Covered(chunks) = 0..(N - 1)
    /\ SumBytes(chunks, Len(chunks)) = N
    /\ \A k \in 1..(Len(chunks) - 1) : chunks[k + 1][1] = chunks[k][2] + 1

\* C10 (as claimed): for every N >= 0 and chunkSize > 0 the chunks returned by
\* createChunks partition [0, N).
C10_PartitionAnyN ==
    (ccPc = "done" /\ ccFileSize >= 0) => IsPartition(ccChunks, ccFileSize)

\* C10 (amended): for every N > 0 and chunkSize > 0 the chunks returned by
\* createChunks partition [0, N), none of them empty; for N <= 0 the result is
\* the single chunk [0, 0].
C10_PartitionPositiveN ==
    ccPc = "done" =>
        /\ ccChunks = createChunks(ccFileSize, ccChunkSize)
        /\ IF ccFileSize > 0
           THEN /\ IsPartition(ccChunks, ccFileSize)
                /\ \A k \in 1..Len(ccChunks) : ChunkBytes(ccChunks[k]) >= 1
           ELSE ccChunks = << <<0, 0>> >>

\* C10 witness: a partition of several chunks whose last chunk is shorter.
C10_Witness ==
    /\ ccPc = "done"
    /\ Len(ccChunks) >= 3
    /\ ChunkBytes(ccChunks[Len(ccChunks)]) < ccChunkSize

\* C11: whatever the order in which the segment goroutines finish, when
\* DownloadSegments has returned its array entry i names the file of segment
\* i; MergeSegmentFiles appends the segments in ascending index order, so the
\* output is at every moment the remote segments 0 .. i-1 in that order, and
\* on success all of them.
C11_SegmentOrder ==
    /\ sgPc \in {"mergeCreate", "merge"} =>
          \A i \in Segs : downloadedFiles[i] = i - 1
    /\ sgPc = "merge" =>
          sgOut.content = [j \in 1..(sgMergeI - 1) |-> j - 1]
    /\ (sgPc = "returned" /\ sgResult.kind = "path") =>
          sgOut.content = [j \in 1..NumSegs |-> j - 1]

\* C11 witness: a successful merge of all segments.
C11_Witness ==
    /\ sgPc = "returned"
    /\ sgResult.kind = "path"
    /\ Len(sgOut.content) = NumSegs
    /\ sgCfg.Concurrency > 1

\* C12: av.RemuxFile is called at most once per download, only when
\* config.Remux is set and then exactly once before a path is returned.
\* DownloadFile calls it on the file of the candidate whose chunked download
\* succeeded, never for a failed candidate.  In the segmented download it is
\* never called on a segment file, and it is called on the merged output
\* only after every segment has been appended.
C12_RemuxOnce ==
    /\ Len(dfRemuxed) <= 1
    /\ \A j \in 1..Len(dfRemuxed) :
          /\ cfg.Remux
          /\ dfRemuxed[j] \in URLs
          /\ rcd[dfRemuxed[j]].ret = "ok"
    /\ dfResult = "path" =>
          dfRemuxed = (IF cfg.Remux THEN <<dfUrl>> ELSE << >>)
    /\ Len(sgRemuxed) <= 1
    /\ \A j \in 1..Len(sgRemuxed) :
          /\ sgCfg.Remux
          /\ sgRemuxed[j] = 0
          /\ sgOut.content = [i \in 1..NumSegs |-> i - 1]
    /\ sgResult.kind = "path" =>
          sgRemuxed = (IF sgCfg.Remux THEN <<0>> ELSE << >>)

\* C12 witness: a segmented download with Remux set has returned its path
\* after one remux of the merged file.
C12_Witness ==
    /\ sgResult.kind = "path"
    /\ sgCfg.Remux
    /\ sgRemuxed = <<0>>

\* C13 (as claimed): an ExtractorResponse returned without error has exactly
\* one of its fields populated: a non-empty URL and an empty MediaList, or a
\* non-empty MediaList and an empty URL.
C13_ExactlyOneField ==
    (rdPc = "returned" /\ rdErr = "nil") =>
        \/ (rdResp.URL # "" /\ rdResp.MediaList = << >>)
        \/ (rdResp.URL = "" /\ rdResp.MediaList # << >>)

\* The host GetRedditData retries on, read off the claim.
Alternative(host) ==
    IF host = "old.reddit.com" THEN "www.reddit.com" ELSE "old.reddit.com"

\* The response to request j was a status outside 200..299.
NonSuccess(j) == rdRequests[j].status # 0 /\ rdRequests[j].status \notin 200..299

\* The state part of C14: at most two requests; a second one only after a
\* first response that was not 200, and to the alternative host; after a
\* non-2xx first response the retry is issued; a non-2xx second response ends
\* the extraction with the status error.
C14_AtMostTwoRequests ==
    /\ Len(rdRequests) <= 2
    /\ Len(rdRequests) = 2 =>
         /\ rdRequests[1].status \notin {0, 200}
         /\ rdRequests[2].host = Alternative(rdRequests[1].host)
    /\ (Len(rdRequests) >= 1 /\ NonSuccess(1) /\ rdCookies) =>
         \/ Len(rdRequests) = 2
         \/ (rdPc = "get" /\ rdRaise /\ rdHost = Alternative(rdRequests[1].host))
    /\ (Len(rdRequests) = 2 /\ NonSuccess(2)) =>
         (rdPc = "returned" /\ rdErr = "status")

\* C14: a non-2xx response to GetRedditData's first request is followed by
\* exactly one more request, to the alternative host (www.reddit.com after
\* old.reddit.com, old.reddit.com after any other host); a non-2xx response
\* to that one is returned as an error; no extraction issues more than two
\* API requests, and every extraction returns.
C14_RetryOnce == []C14_AtMostTwoRequests /\ <>(rdPc = "returned")

\* C14 witness: both requests were answered with a non-2xx status and the
\* extraction failed.
C14_Witness ==
    /\ Len(rdRequests) = 2
    /\ NonSuccess(1)
    /\ NonSuccess(2)
    /\ rdRequests[1].host = "old.reddit.com"
    /\ rdErr = "status"

\* C15: for N > 0, createChunks returns exactly ceil(N / chunkSize) inclusive
\* ranges: the first starts at 0, each next one starts at the previous end
\* + 1, every range but the last holds chunkSize bytes, the last holds between
\* 1 and chunkSize bytes and ends at N - 1; two distinct ranges share no offset.
C15_ChunkLayout ==
    (ccPc = "done" /\ ccFileSize > 0) =>
        LET n == Len(ccChunks)
        IN /\ n >= 1
           /\ n * ccChunkSize >= ccFileSize
           /\ (n - 1) * ccChunkSize < ccFileSize
           /\ ccChunks[1][1] = 0
           /\ \A k \in 1..(n - 1) :
                /\ ccChunks[k + 1][1] = ccChunks[k][2] + 1
                /\ ccChunks[k][2] - ccChunks[k][1] + 1 = ccChunkSize
           /\ ccChunks[n][2] = ccFileSize - 1
           /\ ccChunks[n][2] - ccChunks[n][1] + 1 \in 1..ccChunkSize
           /\ \A j, k \in 1..n :
                j # k => (ccChunks[j][1]..ccChunks[j][2])
                           \cap (ccChunks[k][1]..ccChunks[k][2]) = {}

\* C15 witness: N is a multiple of chunkSize and the last of several chunks
\* is a full one.
C15_Witness ==
    /\ ccPc = "done"
    /\ ccFileSize = 2 * ccChunkSize
    /\ ccChunkSize > 1
    /\ Len(ccChunks) = 2
    /\ ccChunks[2] = <<ccChunkSize, ccFileSize - 1>>

\* C16 (as claimed): in a download split into more than one chunk a response
\* with status 200 is a chunk error, so the data a chunk goroutine is about
\* to write at its chunk's offset is always the body of a 206 response to its
\* range.
C16_FullBodyOnlySingleChunk ==
    \A w \in Workers :
        (wk[w].pc = "write" /\ Len(ChunksOf(w[1])) > 1) =>
            wk[w].data = ResponseBody(206, RangeHeader(ChunkOf(w[1], w[2])),
                                      rcd[w[1]].fileSize)

\* C17 (as claimed), for the workers waiting for a slot: once the first error
\* has cancelled the download context, a chunk worker that has not acquired
\* a slot never acquires one, so it starts no attempt.
C17_NoAttemptAfterCancel ==
    [][\A w \in Workers :
          (rcd[w[1]].once /\ wk[w].pc = "acquire") => wk'[w].pc # "attempt"]_vars

\* The state part of C17: a recorded first error comes with the cancelled
\* download context, and from then on no chunk worker that has not returned
\* is blocked: it has a step to take.
C17_Recorded ==
    \A k \in URLs :
        rcd[k].once =>
            /\ rcd[k].cancelled
            /\ rcd[k].downloadErr.kind \in {"chunk", "write"}
            /\ \A i \in 1..MaxChunks :
                 wk[<<k, i>>].pc \notin {"idle", "done"} => ENABLED WorkerStep(k, i)

\* The step part of C17: the first worker to fail records its own error;
\* after the cancellation no attempt succeeds; runChunkedDownload returns the
\* recorded error with the file unlinked.
C17_Steps ==
    /\ \A w \in Workers :
         (wk[w].pc = "fail" /\ wk[w].err.cause = "allFailed" /\ ~rcd[w[1]].once
             /\ wk'[w].pc = "done")
            => /\ rcd'[w[1]].once
               /\ rcd'[w[1]].cancelled
               /\ rcd'[w[1]].downloadErr =
                    Err("chunk", w[2] - 1, "allFailed", cfg.RetryAttempts)
               /\ rcd'[w[1]].errChan = <<rcd'[w[1]].downloadErr>>
    /\ \A w \in Workers :
         (rcd[w[1]].once /\ wk[w].pc # "write") => wk'[w].pc # "write"
    /\ \A k \in URLs :
         (rcd[k].started /\ rcd[k].ret = "none" /\ rcd'[k].ret = "err")
            => /\ ~fs'.exists
               /\ dfErrs' = Append(dfErrs, rcd[k].downloadErr)

\* C17 (amended): when a chunk is the first to exhaust its retries its error
\* is recorded and the download context is cancelled; from then on no attempt
\* of another chunk succeeds (a worker may still acquire a slot and start an
\* attempt, which fails on the cancelled context), no chunk worker is left
\* blocked on its way to its return, and runChunkedDownload returns the
\* recorded error with the output file unlinked.
C17_FirstErrorPolicy ==
    /\ []C17_Recorded
    /\ [][C17_Steps]_vars

\* C17 witness: with two chunks, one has exhausted its retries and
\* runChunkedDownload has returned its error while the other worker has not
\* acquired a slot yet.
C17_Witness ==
    /\ rcd[1].once
    /\ rcd[1].ret = "err"
    /\ rcd[1].downloadErr.cause = "allFailed"
    /\ ~ctxDone
    /\ \E i \in 1..MaxChunks : wk[<<1, i>>].pc = "acquire"

\* The chunk workers of candidate k between their semaphore send and their
\* deferred receive.
ChunkHolders(k) ==
    {i \in 1..MaxChunks :
        wk[<<k, i>>].pc \in {"attempt", "write", "fail", "progress", "report"}}

\* The segment workers between their semaphore send and their deferred receive.
SegHolders ==
    {i \in Segs : sw[i] \in {"loop", "ensure", "probe", "create", "chunks"}}

\* C18: the slots in use of a semaphore are exactly the workers that acquired
\* one and have not returned (so each slot is released once, by the worker
\* that acquired it), and they are never more than Concurrency: for the chunk
\* workers of every runChunkedDownload call and for the segment workers of
\* DownloadSegments.
C18_BoundedConcurrency ==
    /\ \A k \in URLs :
         /\ rcd[k].sem = Cardinality(ChunkHolders(k))
         /\ Cardinality(ChunkHolders(k)) <= cfg.Concurrency
    /\ sgSem = Cardinality(SegHolders)
    /\ Cardinality(SegHolders) <= sgCfg.Concurrency

\* C18 witness: with Concurrency 1 one chunk worker holds the slot and
\* another waits for it.
C18_Witness ==
    /\ cfg.Concurrency = 1
    /\ rcd[1].sem = 1
    /\ \E i, j \in 1..MaxChunks :
         /\ wk[<<1, i>>].pc = "attempt"
         /\ wk[<<1, j>>].pc = "acquire"
    /\ ~DownloadCtxDone(1)

\* The state part of C19: the latch is set exactly when an error is recorded;
\* the channel never holds more than the one error; a failed worker that
\* finds the latch open finds room in the channel, so its send does not
\* block; once the channel is closed every worker has returned.
C19_Latch ==
    \A k \in URLs :
        /\ rcd[k].once <=> (rcd[k].downloadErr # NoErr)
        /\ Len(rcd[k].errChan) <= 1
        /\ \A i \in 1..MaxChunks :
             (wk[<<k, i>>].pc = "fail" /\ ~rcd[k].once) => Len(rcd[k].errChan) < 1
        /\ rcd[k].closed => \A i \in 1..MaxChunks : wk[<<k, i>>].pc \in {"idle", "done"}

\* The step part of C19: a set latch is never set again (the recorded error
\* stays and nothing more is sent); nothing is sent on a closed channel; the
\* send that sets the latch puts the recorded error on the channel; the error
\* returned from the channel is the recorded one.
C19_LatchSteps ==
    \A k \in URLs :
        /\ rcd[k].once =>
             /\ rcd'[k].once
             /\ rcd'[k].downloadErr = rcd[k].downloadErr
             /\ Len(rcd'[k].errChan) <= Len(rcd[k].errChan)
        /\ rcd[k].closed => Len(rcd'[k].errChan) <= Len(rcd[k].errChan)
        /\ (~rcd[k].once /\ rcd'[k].once) =>
             rcd'[k].errChan = <<rcd'[k].downloadErr>>
        /\ (rcd[k].started /\ rcd[k].ret = "none" /\ rcd'[k].ret = "err") =>
             /\ rcd[k].once
             /\ dfErrs'[Len(dfErrs')] = rcd[k].downloadErr

\* C19: per candidate download the first-error latch is set at most once:
\* however many chunk workers fail, one error is recorded and sent on the
\* error channel; the send does not block and never follows the close of the
\* channel; the error returned on the failure path is the recorded one.
C19_LatchOnce == []C19_Latch /\ [][C19_LatchSteps]_vars

\* C19 witness: a second chunk worker has failed after the latch was set by
\* another one, whose error runChunkedDownload already took from the channel.
C19_Witness ==
    \E i \in 1..MaxChunks :
        /\ wk[<<1, i>>].pc = "fail"
        /\ rcd[1].once
        /\ rcd[1].downloadErr.idx # i - 1
        /\ rcd[1].errChan = << >>
        /\ rcd[1].ret = "err"

\* The state part of C20: the runChunkedDownload call of a candidate starts
\* with a download context that is not cancelled and an open latch; and when
\* DownloadFile has returned without any cancellation by the caller, every
\* candidate that failed with a chunk error was followed by an attempt of the
\* next candidate.
C20_FreshChild ==
    /\ \A k \in URLs :
         (dfUrl = k /\ dfPc \in {"head", "create"}) =>
             /\ ~rcd[k].cancelled
             /\ ~rcd[k].once
             /\ rcd[k].downloadErr = NoErr
             /\ rcd[k].errChan = << >>
    /\ \A k \in 1..(NumURLs - 1) :
         (dfPc = "returned" /\ ~ctxDone /\ rcd[k].ret = "err"
             /\ rcd[k].downloadErr.kind = "chunk") => Attempted(k + 1)

\* The step part of C20: a step that cancels a download context or sets a
\* latch leaves the caller's signal and the other candidates' contexts and
\* latches as they are; a worker waiting for a slot leaves through Done()
\* only when its own candidate's context or the caller's is cancelled.
C20_FrameSteps ==
    /\ \A k \in URLs :
         (rcd'[k].cancelled # rcd[k].cancelled \/ rcd'[k].once # rcd[k].once) =>
             /\ ctxDone' = ctxDone
             /\ \A j \in URLs \ {k} : rcd'[j] = rcd[j]
    /\ \A w \in Workers :
         (wk[w].pc = "acquire" /\ wk'[w].pc = "done") =>
             (rcd[w[1]].cancelled \/ ctxDone)

\* C20: a fatal chunk error cancels only the internal child signal of its
\* own runChunkedDownload call: the caller's signal stays as it is, and when
\* the caller has not cancelled DownloadFile goes on to the next candidate,
\* which gets a fresh child signal and a fresh error latch.
C20_ChildOnly == []C20_FreshChild /\ [][C20_FrameSteps]_vars

\* C20 witness: the first candidate failed with a chunk error, the caller
\* never cancelled, and the second candidate's download succeeded.
C20_Witness ==
    /\ rcd[1].ret = "err"
    /\ rcd[1].downloadErr.kind = "chunk"
    /\ ~ctxDone
    /\ dfUrl = 2
    /\ dfResult = "path"
    /\ fs.exists

\* C21: every blocking point honors the caller's cancellation: once the
\* caller has cancelled, the segmented download returns and every segment
\* goroutine has left its wait for a concurrency slot, whatever the
\* Concurrency (0 included).
C21_CancelUnblocks ==
    sgCtxDone ~> (/\ sgPc = "returned"
                  /\ \A i \in Segs : sw[i] \in {"idle", "done"})

\* Chunk i of candidate k has been written at its offset: the output file
\* has a byte of a response body at the chunk's first position.
ChunkWritten(k, i) ==
    LET start == ChunkOf(k, i)[1]
    IN /\ Len(fs.content) > start
       /\ fs.content[start + 1] # 0

\* C22 (as claimed): when runChunkedDownload has returned nil, every chunk
\* goroutine of the candidate has returned, every chunk of the partition has
\* been written at its offset, and the error latch is not set.
C22_SuccessAllWritten ==
    \A k \in URLs :
        rcd[k].ret = "ok" =>
            /\ \A i \in 1..Len(ChunksOf(k)) : wk[<<k, i>>].pc = "done"
            /\ \A i \in 1..Len(ChunksOf(k)) : ChunkWritten(k, i)
            /\ ~rcd[k].once

\* C23: when DownloadSegments has returned its path array without error
\* (MergeSegmentFiles is being entered or is running), every entry of the
\* array is the path of its own index, the file of every index exists in the
\* temporary directory, and every segment goroutine has returned.
C23_SegmentsAllDone ==
    sgPc \in {"mergeCreate", "merge"} =>
        /\ sgDir2 \in dirs
        /\ \A i \in Segs :
              /\ downloadedFiles[i] # NoPath
              /\ downloadedFiles[i] = SegmentPath(i - 1)
              /\ segFile[i]
              /\ sw[i] = "done"

\* C23 witness: DownloadSegments has just returned the paths of all segments,
\* downloaded one after the other through a single slot.
C23_Witness ==
    /\ sgPc = "mergeCreate"
    /\ sgCfg.Concurrency = 1
    /\ sgClosed
    /\ \A i \in Segs : downloadedFiles[i] # NoPath /\ segFile[i]

\* The state part of C24: when DownloadFile has returned, every chunk
\* goroutine it started has returned.
C24_Quiescent ==
    dfPc = "returned" => \A w \in Workers : wk[w].pc \in {"idle", "done"}

\* The step part of C24: after the return no step calls ProgressUpdater or
\* writes to the output file.
C24_SilentSteps ==
    dfPc = "returned" => (lastReport' = lastReport /\ fs' = fs)

\* C24 (as claimed): once DownloadFile has returned, with a path or with an
\* error, no chunk goroutine it started is still running, so that no
\* ProgressUpdater call and no write to the output file follows the return.
C24_QuiescentAtReturn == []C24_Quiescent /\ [][C24_SilentSteps]_vars

\* The sum of f over the finite set S.
RECURSIVE SumOver(_, _)
SumOver(f, S) ==
    IF S = {} THEN 0
    ELSE LET x == CHOOSE y \in S : TRUE
         IN f[x] + SumOver(f, S \ {x})

\* How many steps DownloadFile has before it at most, by its position.
DFRank ==
    6 * (NumURLs + 1 - dfUrl)
    + (CASE dfPc = "loop" -> 5
         [] dfPc = "head" -> 4
         [] dfPc = "create" -> 3
         [] dfPc = "wait" -> 2
         [] dfPc = "remux" -> 1
         [] OTHER -> 0)

\* How many steps a chunk goroutine has before it at most.
WRank(w) ==
    CASE w.pc = "idle" -> MaxRetry + 7
      [] w.pc = "acquire" -> MaxRetry + 6
      [] w.pc = "attempt" -> 4 + (MaxRetry + 1 - w.attempt)
      [] w.pc = "write" -> 3
      [] w.pc = "progress" -> 2
      [] w.pc = "report" -> 1
      [] w.pc = "fail" -> 1
      [] OTHER -> 0

\* How many steps a segment goroutine has before it at most.
SWRank(pc) ==
    CASE pc = "idle" -> 8
      [] pc = "acquire" -> 7
      [] pc = "loop" -> 6
      [] pc = "ensure" -> 5
      [] pc = "probe" -> 4
      [] pc = "create" -> 3
      [] pc = "chunks" -> 2
      [] OTHER -> 0

\* How many steps DownloadFileWithSegments has before it at most.
SGRank ==
    (NumSegs + 1 - sgMergeI)
    + (CASE sgPc = "mkdir1" -> 6
         [] sgPc = "mkdir2" -> 5
         [] sgPc = "range" -> 4
         [] sgPc = "mergeCreate" -> 3
         [] sgPc = "merge" -> 2
         [] sgPc = "segfail" -> 1
         [] OTHER -> 0)

\* A bound on the number of steps left: the positions of the two functions,
\* of every goroutine and closer, and the events that happen once (the
\* caller's cancellation, the ticks of the clock).
StepsLeft ==
    DFRank
    + SumOver([w \in Workers |-> WRank(wk[w])], Workers)
    + Cardinality({k \in URLs : ~rcd[k].closed})
    + (IF ctxDone THEN 0 ELSE 1)
    + SGRank
    + SumOver([i \in Segs |-> SWRank(sw[i])], Segs)
    + (IF sgClosed THEN 0 ELSE 1)
    + (IF sgCtxDone THEN 0 ELSE 1)
    + (MaxClock - clock)

\* DownloadFile has returned and every goroutine it started has returned.
DFQuiet ==
    /\ dfPc = "returned"
    /\ \A w \in Workers : wk[w].pc \in {"idle", "done"}
    /\ \A k \in URLs : rcd[k].started => rcd[k].closed

\* DownloadFileWithSegments has returned and every goroutine it started has
\* returned.
SGQuiet ==
    /\ sgPc = "returned"
    /\ \A i \in Segs : sw[i] \in {"idle", "done"}
    /\ (\E i \in Segs : sw[i] # "idle") => sgClosed

\* The state part of C25: with Concurrency >= 1, as long as the function has
\* not returned or one of its goroutines has not, the program itself can take
\* a step (one that is neither the caller's cancellation nor a tick of the
\* clock): nothing waits for a slot or for room in an error channel that
\* will never come.
C25_NotBlocked ==
    /\ (dfPc # "off" /\ cfg.Concurrency >= 1) =>
          (DFQuiet \/ ENABLED (Next /\ ctxDone' = ctxDone))
    /\ (sgPc # "off" /\ sgCfg.Concurrency >= 1) =>
          (SGQuiet \/ ENABLED (SGNext /\ sgCtxDone' = sgCtxDone /\ clock' = clock))

\* The step part of C25: every step brings the end nearer.
C25_Progress == StepsLeft' < StepsLeft

\* C25: termination.  With Concurrency >= 1, DownloadFile and
\* DownloadFileWithSegments return and every goroutine they started returns,
\* with or without cancellation: every step lowers a natural number, and
\* the program can take a step until all of them have returned, so no
\* goroutine is blocked forever on the semaphore or on the error channel.
C25_Termination == []C25_NotBlocked /\ [][C25_Progress]_vars

\* C25 witness: with a single slot, both candidates were split into two
\* chunks and failed, DownloadFile has returned and all four chunk
\* goroutines and both closers have returned.
C25_Witness ==
    /\ cfg.Concurrency = 1
    /\ DFQuiet
    /\ dfResult = "downloadFailed"
    /\ \A w \in Workers : wk[w].pc = "done"
    /\ \A k \in URLs : rcd[k].closed

====
